---- MODULE Spec2Model ----
(***************************************************************************)
(* DID:ION lifecycle scripts: 2-create-did.js (DIDCreator),                *)
(* 3-anchor-bitcoin.js (IONBitcoinAnchorer) and 3-simple-anchor.js         *)
(* (SimpleIONAnchorer).                                                    *)
(*                                                                         *)
(* Strings that the code compares, filters or sorts (file names, investor  *)
(* ids, timestamps) are sequences of UTF-16 code units, so that            *)
(* startsWith / endsWith / includes / sort() are computed as JavaScript    *)
(* computes them.  Objects are records; a null or undefined reference is   *)
(* the record Null.  The errors object is the set of its keys.             *)
(***************************************************************************)
EXTENDS Integers, Sequences, FiniteSets, TLC

VARIABLES
    script,             \* which script this process runs
    pc,                 \* position of run() (the await it is suspended at)
    config,             \* names of the process.env values that are set
    investorId,         \* this.investorId
    store,              \* the files of ./data: records [name, content]
    now,                \* the wall clock (Date.now), in ticks
    didData,            \* this.didData
    createRequest,      \* this.createRequest
    anchorResponse,     \* this.anchorResponse
    bitcoinTransaction, \* this.bitcoinTransaction
    resolvedDID,        \* this.resolvedDID (SimpleIONAnchorer)
    errors,             \* Object.keys(this.errors)
    tiers,              \* network tiers of the submitter called so far, in order
    inflight,           \* network calls of this process that have not returned
    tierFailed,         \* tiers whose call has returned with an error
    confirmed,          \* waitForConfirmation: let confirmed
    attempts,           \* waitForConfirmation: let attempts
    txStatusResponse,   \* outcome of the status query of the current iteration
    queries,            \* number of getTransaction calls issued
    sawFailed,          \* some status query reported FAILED or REJECTED
    sawRaise,           \* some status query raised
    waitResult,         \* what waitForConfirmation returned
    trace,              \* the methods run() has entered and the calls it has issued
    envFile,            \* the KEY=value lines of .env this process wrote
    summary,            \* what run() returned
    saved,              \* the saveDIDData calls made so far and how they ended
    addresses,          \* DIDCreator: which of btcAddress, ethAddress, solAddress are set
    didKeys,            \* DIDCreator: this.didKeys
    didInstance,        \* DIDCreator: this.didInstance
    longFormDid,        \* DIDCreator: this.longFormDid
    shortFormDid        \* DIDCreator: this.shortFormDid

vars == <<script, pc, config, investorId, store, now, didData, createRequest,
          anchorResponse, bitcoinTransaction, resolvedDID, errors, tiers,
          inflight, tierFailed, confirmed, attempts, txStatusResponse, queries,
          sawFailed, sawRaise, waitResult, trace, envFile, summary, saved,
          addresses, didKeys, didInstance, longFormDid, shortFormDid>>

creatorVars == <<addresses, didKeys, didInstance, longFormDid, shortFormDid>>

runVars == <<didData, createRequest, anchorResponse, bitcoinTransaction,
             resolvedDID, errors, tiers, inflight, tierFailed, confirmed,
             attempts, txStatusResponse, queries, sawFailed, sawRaise,
             waitResult, trace, envFile, summary>>

(***************************************************************************)
(* Bounds of the model.                                                    *)
(***************************************************************************)
MaxTime == 11
MaxSaves == 3

Null == [null |-> TRUE]

\* null in a field that otherwise holds a string (code unit 0 is in no string
\* of the model)
NullString == <<0>>

(***************************************************************************)
(* Strings.                                                                *)
(***************************************************************************)
StrDid == <<100, 105, 100, 45>>                     \* "did-"
StrDidKeys == <<100, 105, 100, 45, 107, 101, 121, 115, 45>>   \* "did-keys-"
StrDidPublic == <<100, 105, 100, 45, 112, 117, 98, 108, 105, 99, 45>> \* "did-public-"
StrKeys == <<107, 101, 121, 115>>                   \* "keys"
StrPublic == <<112, 117, 98, 108, 105, 99>>         \* "public"
StrJson == <<46, 106, 115, 111, 110>>               \* ".json"
StrDash == <<45>>                                   \* "-"

InvestorIds == { <<97>>, <<97, 98>> }               \* "a", "ab"

startsWith(s, p) == Len(p) <= Len(s) /\ SubSeq(s, 1, Len(p)) = p

endsWith(s, p) ==
    Len(p) <= Len(s) /\ SubSeq(s, Len(s) - Len(p) + 1, Len(s)) = p

includes(s, p) ==
    \E i \in 1..(Len(s) - Len(p) + 1) : SubSeq(s, i, i + Len(p) - 1) = p

\* the order of Array.prototype.sort() without a comparator: code units
LexLess(a, b) ==
    \E i \in 1..(Len(b)) :
        /\ i <= Len(a) + 1
        /\ \A j \in 1..(i - 1) : a[j] = b[j]
        /\ (i = Len(a) + 1 \/ a[i] < b[i])

Digit(n) == 48 + n

\* Date.prototype.toISOString: zero-padded fields of fixed width; of the
\* 24 characters the model keeps the seconds, the "." and the fraction: "SS.fZ"
toISOString(t) == <<Digit((t \div 10) \div 10), Digit((t \div 10) % 10), 46,
                    Digit(t % 10), 90>>

\* .replace(/[:.]/g, '-')
replaceColonDot(s) ==
    [i \in 1..Len(s) |-> IF s[i] = 58 \/ s[i] = 46 THEN 45 ELSE s[i]]

timestampOf(t) == replaceColonDot(toISOString(t))

(***************************************************************************)
(* The files of ./data.                                                    *)
(***************************************************************************)
didDataFileName(inv, t) == StrDid \o inv \o StrDash \o timestampOf(t) \o StrJson

didKeysFileName(inv, t) ==
    StrDidKeys \o inv \o StrDash \o timestampOf(t) \o StrJson

didPublicFileName(inv) == StrDidPublic \o inv \o StrJson

\* fs.writeFileSync: creates the file or replaces its content
writeFileSync(st, name, content) ==
    {f \in st : f.name # name} \cup {[name |-> name, content |-> content]}

CreateRequests ==
    { Null, [type |-> "create", suffixData |-> TRUE, delta |-> TRUE] }

\* the didData object saveDIDData builds
DidBundle(inv, t, cr) ==
    [kind |-> "didData", investorId |-> inv, created |-> t,
     createRequest |-> cr, privateKeys |-> TRUE]

KeysBundle(inv, t) ==
    [kind |-> "keys", investorId |-> inv, created |-> t,
     createRequest |-> Null, privateKeys |-> TRUE]

PublicBundle(inv, t, cr) ==
    [kind |-> "public", investorId |-> inv, created |-> t,
     createRequest |-> cr, privateKeys |-> FALSE]

\* the three writes of saveDIDData; failAt is the write that raises (0: none)
saveDIDDataWrites(st, inv, t, cr, failAt) ==
    LET s1 == IF failAt = 1 THEN st
              ELSE writeFileSync(st, didDataFileName(inv, t), DidBundle(inv, t, cr))
        s2 == IF failAt \in {1, 2} THEN s1
              ELSE writeFileSync(s1, didKeysFileName(inv, t), KeysBundle(inv, t))
        s3 == IF failAt \in {1, 2, 3} THEN s2
              ELSE writeFileSync(s2, didPublicFileName(inv), PublicBundle(inv, t, cr))
    IN  s3

\* files.filter(...) of loadDIDData
didDataFiles(st, inv) ==
    {f \in st : /\ startsWith(f.name, StrDid \o inv)
                /\ endsWith(f.name, StrJson)
                /\ ~includes(f.name, StrKeys)
                /\ ~includes(f.name, StrPublic)}

\* didDataFiles.sort().reverse()[0]
latestFile(fs) == CHOOSE f \in fs : \A g \in fs : g = f \/ LexLess(g.name, f.name)

\* loadDIDData: the key it records in errors ("" when it returns normally)
loadFailure(st, inv) ==
    IF didDataFiles(st, inv) = {} THEN "loadDIDData"
    ELSE IF latestFile(didDataFiles(st, inv)).content.createRequest = Null
         THEN "loadDIDData"
         ELSE ""

loadedBundle(st, inv) ==
    IF didDataFiles(st, inv) = {} THEN Null
    ELSE latestFile(didDataFiles(st, inv)).content

(***************************************************************************)
(* Process configuration and the answers of the external services.         *)
(***************************************************************************)
ConfigNames == {"DID_LONG_FORM", "DID_SHORT_FORM", "BTC_WALLET_ADDRESS",
                "FIREBLOCKS_API_KEY", "FIREBLOCKS_SECRET_KEY_PATH",
                "INVESTOR_ID", "ION_NODE_ENDPOINT", "VAULT_ACCOUNT_ID"}

\* the environments a run is started in: every value set, one value unset,
\* or none set
Configs ==
    {ConfigNames \ missing : missing \in {m \in SUBSET ConfigNames :
                                              Cardinality(m) <= 1}}
        \cup {{}}

\* process.env.INVESTOR_ID || 'test-investor-001'
DefaultInvestorId ==
    <<116, 101, 115, 116, 45, 105, 110, 118,
      101, 115, 116, 111, 114, 45, 48, 48, 49>>

\* DIDCreator: process.env.INVESTOR_ID || 'investor-001'
CreatorDefaultInvestorId ==
    <<105, 110, 118, 101, 115, 116, 111, 114, 45, 48, 48, 49>>

\* an investor id that contains 'keys'
KeysInvestorId == <<107, 101, 121, 115, 49>>        \* "keys1"

\* this.investorId of the creation processes: INVESTOR_ID set, or the default
CreatorInvestorIds == InvestorIds \cup {KeysInvestorId, CreatorDefaultInvestorId}

\* this.investorId of the anchoring processes: INVESTOR_ID set, or the default
AnchorerInvestorIds == InvestorIds \cup {KeysInvestorId, DefaultInvestorId}

\* this.investorId of an anchorer started with environment cfg
configuredInvestorIds(cfg) ==
    IF "INVESTOR_ID" \in cfg THEN InvestorIds ELSE {DefaultInvestorId}

\* validateRequirements of IONBitcoinAnchorer (VAULT_ACCOUNT_ID defaults to '23')
bitcoinRequirements == {"DID_LONG_FORM", "DID_SHORT_FORM", "BTC_WALLET_ADDRESS",
                        "FIREBLOCKS_API_KEY", "FIREBLOCKS_SECRET_KEY_PATH"}

\* validateRequirements of SimpleIONAnchorer
simpleRequirements == {"DID_LONG_FORM"}

\* a submission result; status "" is an answer without a status field
Ack(tier, status) == [tier |-> tier, status |-> status]

\* what anchor() may resolve to: nothing, a body without status, a body with one
PrimaryAcks == {Null, Ack("primary", ""), Ack("primary", "accepted")}

\* what response.json() of the direct POST may resolve to
DirectAcks == {Ack("direct", ""), Ack("direct", "accepted")}

TxHashes == {"", "h1", "h2"}                \* "" is an absent txHash

Statuses == {"PENDING", "COMPLETED", "FAILED", "REJECTED"}

Tx(id, status, txHash) == [id |-> id, status |-> status, txHash |-> txHash]

\* txResponse.data of createTransaction
CreatedTransactions ==
    {Tx("", "SUBMITTED", ""), Tx("tx1", "SUBMITTED", ""), Tx("tx1", "PENDING", "h1")}

\* txStatusResponse.data of getTransaction for the tracked id
StatusResponses == {Tx("tx1", s, h) : s \in Statuses, h \in TxHashes}

Raised == [raised |-> TRUE]

\* const maxWaitTime = 10 * 60 * 1000; const checkInterval = 30 * 1000
maxWaitTime == 600000
checkInterval == 30000
maxAttempts == maxWaitTime \div checkInterval

(***************************************************************************)
(* generateSummary, and the catch block of run().                          *)
(***************************************************************************)
\* errorCount === 0 && (this.anchorResponse || this.bitcoinTransaction):
\* the value of the expression: false, the object, or null
bitcoinSuccess(errs, ack, tx) ==
    IF errs # {} THEN "false"
    ELSE IF ack # Null \/ tx # Null THEN "object" ELSE "null"

\* errorCount === 0
simpleSuccess(errs) == IF errs = {} THEN "true" ELSE "false"

generateSummary(scr, errs, ack, tx) ==
    [success |-> IF scr = "bitcoin" THEN bitcoinSuccess(errs, ack, tx)
                 ELSE simpleSuccess(errs),
     errorCount |-> Cardinality(errs),
     errors |-> errs,
     anchorResponse |-> ack,
     bitcoinTransaction |-> tx,
     mainError |-> FALSE]

\* faulty variant: the catch block reports the failure without the state of the run
failedSummaryOpaque(scr, errs, ack, tx) ==
    [generateSummary(scr, {}, Null, Null) EXCEPT !.success = "false",
                                                 !.mainError = TRUE]

\* catch (error) of run(): the summary with success = false and mainError
failedSummary(scr, errs, ack, tx) ==
    [generateSummary(scr, errs, ack, tx) EXCEPT !.success = "false",
                                                !.mainError = TRUE]

Truthy(v) == v \in {"true", "object"}

\* process.exit(result.success ? 0 : 1)
exitStatus(s) == IF Truthy(s.success) THEN 0 ELSE 1

\* a method of run() raises after recording `key` (none for validateRequirements)
Abort(keys) ==
    /\ errors' = errors \cup keys
    /\ summary' = failedSummary(script, errors \cup keys, anchorResponse,
                                bitcoinTransaction)
    /\ pc' = "done"

(***************************************************************************)
(* One process running an anchoring script: new ...Anchorer() and run().   *)
(***************************************************************************)
GoodRequest == [type |-> "create", suffixData |-> TRUE, delta |-> TRUE]

StrAnchorResults ==
    <<97, 110, 99, 104, 111, 114, 45, 114, 101, 115, 117, 108, 116, 115, 45>>

StrSimpleAnchor ==
    <<115, 105, 109, 112, 108, 101, 45, 97, 110, 99, 104, 111, 114, 45>>

\* anchor-results-${investorId}-${timestamp}.json, simple-anchor-...json
resultsFileName(scr, inv, t) ==
    (IF scr = "bitcoin" THEN StrAnchorResults ELSE StrSimpleAnchor)
        \o inv \o StrDash \o timestampOf(t) \o StrJson

\* faulty variant: the loaded DID data, private keys included, is copied into the results
ResultsBundleWithDidData(scr, inv, t, ack, tx) ==
    [kind |-> IF scr = "bitcoin" THEN "anchorResults" ELSE "simpleAnchor",
     investorId |-> inv, created |-> t, createRequest |-> Null,
     privateKeys |-> TRUE, ionSubmission |-> ack, bitcoinTransaction |-> tx]

\* const anchoringResults = {...}: anchoring.ionSubmission and
\* anchoring.bitcoinTransaction are the fields of the process at that moment
ResultsBundle(scr, inv, t, ack, tx) ==
    [kind |-> IF scr = "bitcoin" THEN "anchorResults" ELSE "simpleAnchor",
     investorId |-> inv, created |-> t, createRequest |-> Null,
     privateKeys |-> FALSE, ionSubmission |-> ack, bitcoinTransaction |-> tx]

\* ./data after a creation run and a complete run of 3-anchor-bitcoin.js for
\* the same investor: submission accepted, settlement transaction confirmed
PriorRunStore ==
    writeFileSync(saveDIDDataWrites({}, <<97>>, 0, GoodRequest, 0),
                  resultsFileName("bitcoin", <<97>>, 0),
                  ResultsBundle("bitcoin", <<97>>, 0, Ack("primary", "accepted"),
                                Tx("tx1", "COMPLETED", "h1")))

\* ./data after a creation run for investor "ab" only
OtherInvestorStore == saveDIDDataWrites({}, <<97, 98>>, 0, GoodRequest, 0)

\* ./data as earlier creation and anchoring runs can have left it
InitialStores ==
    { {},
      saveDIDDataWrites({}, <<97>>, 0, GoodRequest, 0),
      saveDIDDataWrites({}, <<97>>, 0, Null, 0),
      PriorRunStore,
      OtherInvestorStore }

FreshRun ==
    /\ didData = Null
    /\ createRequest = Null
    /\ anchorResponse = Null
    /\ bitcoinTransaction = Null
    /\ resolvedDID = Null
    /\ errors = {}
    /\ tiers = <<>>
    /\ inflight = {}
    /\ tierFailed = {}
    /\ confirmed = FALSE
    /\ attempts = 0
    /\ txStatusResponse = Null
    /\ queries = 0
    /\ sawFailed = FALSE
    /\ sawRaise = FALSE
    /\ waitResult = "none"
    /\ trace = {}
    /\ envFile = Null
    /\ summary = Null
    /\ didKeys = {}
    /\ didInstance = Null
    /\ longFormDid = NullString
    /\ shortFormDid = NullString

Init ==
    /\ script \in {"bitcoin", "simple"}
    /\ pc = "validate"
    /\ config \in Configs
    /\ investorId \in configuredInvestorIds(config)
    /\ store \in InitialStores
    /\ now = 1
    /\ saved = {}
    /\ addresses = {}
    /\ FreshRun

\* validateRequirements (both anchorers): raises without recording an error
ValidateRequirements ==
    /\ pc = "validate"
    /\ script \in {"bitcoin", "simple"}
    /\ trace' = trace \cup {"validateRequirements"}
    /\ LET required == IF script = "bitcoin" THEN bitcoinRequirements
                       ELSE simpleRequirements
       IN  IF required \subseteq config
           THEN /\ pc' = IF script = "bitcoin" THEN "initFireblocks" ELSE "load"
                /\ UNCHANGED <<errors, summary>>
           ELSE Abort({})
    /\ UNCHANGED <<creatorVars, script, config, investorId, store, now, saved, didData,
                   createRequest, anchorResponse, bitcoinTransaction,
                   resolvedDID, tiers, inflight, tierFailed, confirmed,
                   attempts, txStatusResponse, queries, sawFailed, sawRaise,
                   waitResult, envFile>>

\* initializeFireblocks: key file, SDK construction and the getVaultAccount test
InitializeFireblocks(ok) ==
    /\ pc = "initFireblocks"
    /\ trace' = trace \cup {"initializeFireblocks"}
    /\ IF ok
       THEN pc' = "load" /\ UNCHANGED <<errors, summary>>
       ELSE Abort({"fireblocksInit"})
    /\ UNCHANGED <<creatorVars, script, config, investorId, store, now, saved, didData,
                   createRequest, anchorResponse, bitcoinTransaction,
                   resolvedDID, tiers, inflight, tierFailed, confirmed,
                   attempts, txStatusResponse, queries, sawFailed, sawRaise,
                   waitResult, envFile>>

\* loadDIDData (the same code in both anchorers)
LoadDIDData ==
    /\ pc = "load"
    /\ trace' = trace \cup {"loadDIDData"}
    /\ didData' = loadedBundle(store, investorId)
    /\ IF loadFailure(store, investorId) = ""
       THEN /\ createRequest' = loadedBundle(store, investorId).createRequest
            /\ pc' = "submit"
            /\ UNCHANGED <<errors, summary>>
       ELSE /\ createRequest' = createRequest
            /\ Abort({loadFailure(store, investorId)})
    /\ UNCHANGED <<creatorVars, script, config, investorId, store, now, saved,
                   anchorResponse, bitcoinTransaction, resolvedDID, tiers,
                   inflight, tierFailed, confirmed, attempts, txStatusResponse,
                   queries, sawFailed, sawRaise, waitResult, envFile>>

(***************************************************************************)
(* submitToIONNode (IONBitcoinAnchorer) and submitToION (SimpleIONAnchorer)*)
(***************************************************************************)
\* the stage run() calls after the submission
afterSubmit(scr) == IF scr = "bitcoin" THEN "createTx" ELSE "resolve"

\* faulty variant: the full anchorer skips the direct POST
fallbackSkipsDirect(scr) == "degraded"

\* what the catch block of the primary tier turns to
fallbackAfterPrimary(scr) == IF scr = "bitcoin" THEN "direct" ELSE "degraded"

\* faulty variant: the last catch block rethrows instead of synthesizing a record
degradedAckRethrows(scr, data, t) == Raised

\* the record the last catch block synthesizes; the full anchorer reads
\* this.didData.did.longForm, which raises when no bundle is loaded
degradedAck(scr, data, t) ==
    IF scr = "bitcoin"
    THEN IF data = Null THEN Raised
         ELSE [tier |-> "degraded", status |-> "pending", method |-> "simulated",
               didUri |-> "didData.did.longForm", timestamp |-> t]
    ELSE [tier |-> "degraded", status |-> "submitted_longform", method |-> "",
          didUri |-> "env.DID_LONG_FORM", timestamp |-> t]

\* faulty variant: a failed direct tier is recorded as a submission error and rethrown
DegradeAborts ==
    /\ tiers' = tiers
    /\ inflight' = {}
    /\ anchorResponse' = anchorResponse
    /\ Abort({"ionSubmission"})

\* the last catch block: synthesize the acknowledgment and return it; if that
\* raises, the outer catch records ionSubmission and rethrows
Degrade ==
    /\ tiers' = Append(tiers, "degraded")
    /\ inflight' = {}
    /\ IF degradedAck(script, didData, now) = Raised
       THEN /\ anchorResponse' = anchorResponse
            /\ Abort({"ionSubmission"})
       ELSE /\ anchorResponse' = degradedAck(script, didData, now)
            /\ pc' = afterSubmit(script)
            /\ UNCHANGED <<errors, summary>>

\* entry of the method up to `await anchor(...)`
SubmitStart ==
    /\ pc = "submit"
    /\ trace' = trace \cup {"submit", "anchor"}
    /\ tiers' = Append(tiers, "primary")
    /\ inflight' = inflight \cup {"primary"}
    /\ pc' = "await_anchor"
    /\ UNCHANGED <<creatorVars, script, config, investorId, store, now, saved, didData,
                   createRequest, anchorResponse, bitcoinTransaction,
                   resolvedDID, errors, tierFailed, confirmed, attempts,
                   txStatusResponse, queries, sawFailed, sawRaise, waitResult,
                   envFile, summary>>

\* anchor() resolves: this.anchorResponse = ...; return
AnchorReturns(ack) ==
    /\ pc = "await_anchor"
    /\ anchorResponse' = ack
    /\ inflight' = inflight \ {"primary"}
    /\ pc' = afterSubmit(script)
    /\ UNCHANGED <<creatorVars, script, config, investorId, store, now, saved, didData,
                   createRequest, bitcoinTransaction, resolvedDID, errors,
                   tiers, tierFailed, confirmed, attempts, txStatusResponse,
                   queries, sawFailed, sawRaise, waitResult, trace, envFile,
                   summary>>

\* anchor() rejects: catch (ionError) / catch (anchorError)
AnchorRaises ==
    /\ pc = "await_anchor"
    /\ tierFailed' = tierFailed \cup {"primary"}
    /\ IF fallbackAfterPrimary(script) = "direct"
       THEN /\ tiers' = Append(tiers, "direct")
            /\ inflight' = (inflight \ {"primary"}) \cup {"direct"}
            /\ trace' = trace \cup {"fetch"}
            /\ pc' = "await_fetch"
            /\ UNCHANGED <<anchorResponse, errors, summary>>
       ELSE /\ Degrade
            /\ trace' = trace
    /\ UNCHANGED <<creatorVars, script, config, investorId, store, now, saved, didData,
                   createRequest, bitcoinTransaction, resolvedDID, confirmed,
                   attempts, txStatusResponse, queries, sawFailed, sawRaise,
                   waitResult, envFile>>

\* fetch(solutionEndpoint) settles: a 2xx response, another response, or a raise
FetchSettles(outcome) ==
    /\ pc = "await_fetch"
    /\ IF outcome = "ok"
       THEN /\ pc' = "await_json"
            /\ UNCHANGED <<anchorResponse, errors, summary, tiers, inflight,
                           tierFailed>>
       ELSE /\ tierFailed' = tierFailed \cup {"direct"}
            /\ Degrade
    /\ UNCHANGED <<creatorVars, script, config, investorId, store, now, saved, didData,
                   createRequest, bitcoinTransaction, resolvedDID, confirmed,
                   attempts, txStatusResponse, queries, sawFailed, sawRaise,
                   waitResult, trace, envFile>>

\* response.json() resolves
JsonReturns(ack) ==
    /\ pc = "await_json"
    /\ anchorResponse' = ack
    /\ inflight' = inflight \ {"direct"}
    /\ pc' = afterSubmit(script)
    /\ UNCHANGED <<creatorVars, script, config, investorId, store, now, saved, didData,
                   createRequest, bitcoinTransaction, resolvedDID, errors,
                   tiers, tierFailed, confirmed, attempts, txStatusResponse,
                   queries, sawFailed, sawRaise, waitResult, trace, envFile,
                   summary>>

\* response.json() rejects: catch (apiError)
JsonRaises ==
    /\ pc = "await_json"
    /\ tierFailed' = tierFailed \cup {"direct"}
    /\ Degrade
    /\ UNCHANGED <<creatorVars, script, config, investorId, store, now, saved, didData,
                   createRequest, bitcoinTransaction, resolvedDID, confirmed,
                   attempts, txStatusResponse, queries, sawFailed, sawRaise,
                   waitResult, trace, envFile>>

(***************************************************************************)
(* createBitcoinTransaction                                                *)
(***************************************************************************)
CreateBitcoinTransaction ==
    /\ pc = "createTx"
    /\ trace' = trace \cup {"createBitcoinTransaction", "createTransaction"}
    /\ inflight' = inflight \cup {"createTransaction"}
    /\ pc' = "await_createTx"
    /\ UNCHANGED <<creatorVars, script, config, investorId, store, now, saved, didData,
                   createRequest, anchorResponse, bitcoinTransaction,
                   resolvedDID, errors, tiers, tierFailed, confirmed, attempts,
                   txStatusResponse, queries, sawFailed, sawRaise, waitResult,
                   envFile, summary>>

\* this.bitcoinTransaction = txResponse.data
CreateTransactionReturns(tx) ==
    /\ pc = "await_createTx"
    /\ bitcoinTransaction' = tx
    /\ inflight' = inflight \ {"createTransaction"}
    /\ pc' = "waitStart"
    /\ UNCHANGED <<creatorVars, script, config, investorId, store, now, saved, didData,
                   createRequest, anchorResponse, resolvedDID, errors, tiers,
                   tierFailed, confirmed, attempts, txStatusResponse, queries,
                   sawFailed, sawRaise, waitResult, trace, envFile, summary>>

\* faulty variant: the error is recorded but not rethrown
CreateTransactionRaisesNonFatal ==
    /\ pc = "await_createTx"
    /\ inflight' = inflight \ {"createTransaction"}
    /\ errors' = errors \cup {"bitcoinTransaction"}
    /\ pc' = "waitStart"
    /\ UNCHANGED <<creatorVars, script, config, investorId, store, now, saved,
                   didData, createRequest, anchorResponse, bitcoinTransaction,
                   resolvedDID, tiers, tierFailed, confirmed, attempts,
                   txStatusResponse, queries, sawFailed, sawRaise, waitResult,
                   trace, envFile, summary>>

\* catch: this.errors.bitcoinTransaction = ...; throw
CreateTransactionRaises ==
    /\ pc = "await_createTx"
    /\ inflight' = inflight \ {"createTransaction"}
    /\ Abort({"bitcoinTransaction"})
    /\ UNCHANGED <<creatorVars, script, config, investorId, store, now, saved, didData,
                   createRequest, anchorResponse, bitcoinTransaction,
                   resolvedDID, tiers, tierFailed, confirmed, attempts,
                   txStatusResponse, queries, sawFailed, sawRaise, waitResult,
                   trace, envFile>>

(***************************************************************************)
(* waitForConfirmation                                                     *)
(***************************************************************************)
\* faulty variant: a txHash is taken only while none is tracked
mergeTxHashFirstWins(tx, data) ==
    IF data.txHash # "" /\ tx.txHash = ""
    THEN [tx EXCEPT !.txHash = data.txHash]
    ELSE tx

\* if (txStatus.txHash && txStatus.txHash !== this.bitcoinTransaction.txHash)
mergeTxHash(tx, data) ==
    IF data.txHash # "" /\ data.txHash # tx.txHash
    THEN [tx EXCEPT !.txHash = data.txHash]
    ELSE tx

\* faulty variant: the answer never replaces the tracked record
trackedAfterMergeOnly(tx, data) == mergeTxHash(tx, data)

\* the tracked record after a status answer: on COMPLETED the answer replaces it
trackedAfter(tx, data) ==
    IF data.status = "COMPLETED" THEN data ELSE mergeTxHash(tx, data)

\* the answers on which the loop body reaches `break`; the throw for FAILED and
\* REJECTED is inside the try of the loop body and is caught by its own catch
breaksLoop(data) == data.status = "COMPLETED"

\* while (!confirmed && attempts < maxAttempts)
loopCondition(conf, att) == ~conf /\ att < maxAttempts

\* faulty variant: the wait is unconditional
sleepsAfterAlways(att) == TRUE

\* if (attempts < maxAttempts) await new Promise(... setTimeout ...)
sleepsAfter(att) == att < maxAttempts

\* entry: the guard on this.bitcoinTransaction.id, then the loop variables
WaitForConfirmation ==
    /\ pc = "waitStart"
    /\ trace' = trace \cup {"waitForConfirmation"}
    /\ IF bitcoinTransaction = Null \/ bitcoinTransaction.id = ""
       THEN /\ errors' = errors \cup {"confirmation"}
            /\ waitResult' = "false"
            /\ pc' = "save"
            /\ UNCHANGED <<confirmed, attempts>>
       ELSE /\ confirmed' = FALSE
            /\ attempts' = 0
            /\ pc' = "poll"
            /\ UNCHANGED <<errors, waitResult>>
    /\ UNCHANGED <<creatorVars, script, config, investorId, store, now, saved, didData,
                   createRequest, anchorResponse, bitcoinTransaction,
                   resolvedDID, tiers, inflight, tierFailed, txStatusResponse,
                   queries, sawFailed, sawRaise, envFile, summary>>

\* faulty variant: leaving the loop unconfirmed is recorded as an error
PollTimeoutIsError ==
    /\ pc = "poll"
    /\ IF loopCondition(confirmed, attempts)
       THEN /\ attempts' = attempts + 1
            /\ queries' = queries + 1
            /\ inflight' = inflight \cup {"getTransaction"}
            /\ trace' = trace \cup {"getTransaction"}
            /\ pc' = "await_query"
            /\ UNCHANGED <<waitResult, errors>>
       ELSE /\ waitResult' = IF confirmed THEN "true" ELSE "false"
            /\ errors' = IF confirmed THEN errors ELSE errors \cup {"confirmation"}
            /\ pc' = "save"
            /\ UNCHANGED <<attempts, queries, inflight, trace>>
    /\ txStatusResponse' = Null
    /\ UNCHANGED <<creatorVars, script, config, investorId, store, now, saved, didData,
                   createRequest, anchorResponse, bitcoinTransaction,
                   resolvedDID, tiers, tierFailed, confirmed, sawFailed,
                   sawRaise, envFile, summary>>

\* the loop head: either attempts++ and the next getTransaction, or the exit
\* of the loop and `return confirmed`
Poll ==
    /\ pc = "poll"
    /\ IF loopCondition(confirmed, attempts)
       THEN /\ attempts' = attempts + 1
            /\ queries' = queries + 1
            /\ inflight' = inflight \cup {"getTransaction"}
            /\ trace' = trace \cup {"getTransaction"}
            /\ pc' = "await_query"
            /\ UNCHANGED waitResult
       ELSE /\ waitResult' = IF confirmed THEN "true" ELSE "false"
            /\ pc' = "save"
            /\ UNCHANGED <<attempts, queries, inflight, trace>>
    /\ txStatusResponse' = Null
    /\ UNCHANGED <<creatorVars, script, config, investorId, store, now, saved, didData,
                   createRequest, anchorResponse, bitcoinTransaction,
                   resolvedDID, errors, tiers, tierFailed, confirmed, sawFailed,
                   sawRaise, envFile, summary>>

\* the rest of the loop body after the try statement
AfterTick(breaks) ==
    IF breaks
    THEN /\ waitResult' = "true"
         /\ pc' = "save"
    ELSE /\ waitResult' = waitResult
         /\ pc' = IF sleepsAfter(attempts) THEN "sleep" ELSE "poll"

\* getTransaction resolves with txStatusResponse.data = data
QueryReturns(data) ==
    /\ pc = "await_query"
    /\ inflight' = inflight \ {"getTransaction"}
    /\ txStatusResponse' = data
    /\ bitcoinTransaction' = trackedAfter(bitcoinTransaction, data)
    /\ confirmed' = breaksLoop(data)
    /\ sawFailed' = (sawFailed \/ data.status \in {"FAILED", "REJECTED"})
    /\ AfterTick(breaksLoop(data))
    /\ UNCHANGED <<creatorVars, script, config, investorId, store, now, saved, didData,
                   createRequest, anchorResponse, resolvedDID, errors, tiers,
                   tierFailed, attempts, queries, sawRaise, trace, envFile,
                   summary>>

\* faulty variant: a raising status query reaches the catch of the method
QueryRaisesFatal ==
    /\ pc = "await_query"
    /\ inflight' = inflight \ {"getTransaction"}
    /\ txStatusResponse' = Raised
    /\ sawRaise' = TRUE
    /\ errors' = errors \cup {"confirmation"}
    /\ waitResult' = "false"
    /\ pc' = "save"
    /\ UNCHANGED <<creatorVars, script, config, investorId, store, now, saved, didData,
                   createRequest, anchorResponse, bitcoinTransaction,
                   resolvedDID, tiers, tierFailed, confirmed, attempts,
                   queries, sawFailed, trace, envFile, summary>>

\* getTransaction rejects (or its answer has no data): catch (statusError)
QueryRaises ==
    /\ pc = "await_query"
    /\ inflight' = inflight \ {"getTransaction"}
    /\ txStatusResponse' = Raised
    /\ sawRaise' = TRUE
    /\ AfterTick(FALSE)
    /\ UNCHANGED <<creatorVars, script, config, investorId, store, now, saved, didData,
                   createRequest, anchorResponse, bitcoinTransaction,
                   resolvedDID, errors, tiers, tierFailed, confirmed, attempts,
                   queries, sawFailed, trace, envFile, summary>>

\* the setTimeout of checkInterval fires
TimerFires ==
    /\ pc = "sleep"
    /\ pc' = "poll"
    /\ txStatusResponse' = Null
    /\ UNCHANGED <<creatorVars, script, config, investorId, store, now, saved, didData,
                   createRequest, anchorResponse, bitcoinTransaction,
                   resolvedDID, errors, tiers, inflight, tierFailed, confirmed,
                   attempts, queries, sawFailed, sawRaise, waitResult, trace,
                   envFile, summary>>

(***************************************************************************)
(* testDIDResolution (SimpleIONAnchorer)                                   *)
(***************************************************************************)
TestDIDResolution ==
    /\ pc = "resolve"
    /\ trace' = trace \cup {"testDIDResolution", "resolve"}
    /\ inflight' = inflight \cup {"resolve"}
    /\ pc' = "await_resolve"
    /\ UNCHANGED <<creatorVars, script, config, investorId, store, now, saved, didData,
                   createRequest, anchorResponse, bitcoinTransaction,
                   resolvedDID, errors, tiers, tierFailed, confirmed, attempts,
                   txStatusResponse, queries, sawFailed, sawRaise, waitResult,
                   envFile, summary>>

\* resolve() settles; a rejection gives the 'resolution_pending' record
ResolveSettles(outcome) ==
    /\ pc = "await_resolve"
    /\ inflight' = inflight \ {"resolve"}
    /\ resolvedDID' = IF outcome = "raise"
                      THEN [status |-> "resolution_pending", didDocument |-> FALSE]
                      ELSE [status |-> "", didDocument |-> (outcome = "document")]
    /\ pc' = "save"
    /\ UNCHANGED <<creatorVars, script, config, investorId, store, now, saved, didData,
                   createRequest, anchorResponse, bitcoinTransaction, errors,
                   tiers, tierFailed, confirmed, attempts, txStatusResponse,
                   queries, sawFailed, sawRaise, waitResult, trace, envFile,
                   summary>>

(***************************************************************************)
(* saveAnchoringResults / saveResults, updateEnvFile, generateSummary      *)
(***************************************************************************)
\* saveAnchoringResults and saveResults: a failed write is recorded, not raised
SaveResults(ok) ==
    /\ pc = "save"
    /\ trace' = trace \cup {"saveResults"}
    /\ txStatusResponse' = Null
    /\ IF ok
       THEN /\ store' = writeFileSync(store,
                            resultsFileName(script, investorId, now),
                            ResultsBundle(script, investorId, now,
                                          anchorResponse, bitcoinTransaction))
            /\ UNCHANGED errors
       ELSE /\ errors' = errors \cup {"saveResults"}
            /\ UNCHANGED store
    /\ pc' = "envUpdate"
    /\ UNCHANGED <<creatorVars, script, config, investorId, now, saved, didData,
                   createRequest, anchorResponse, bitcoinTransaction,
                   resolvedDID, tiers, inflight, tierFailed, confirmed,
                   attempts, queries, sawFailed, sawRaise, waitResult, envFile,
                   summary>>

\* const updates = {...} of updateEnvFile
envUpdates(scr, tx, res) ==
    IF scr = "bitcoin"
    THEN [DID_ANCHORED |-> "true",
          BITCOIN_TX_HASH |-> IF tx = Null \/ tx.txHash = "" THEN "pending"
                              ELSE tx.txHash,
          ANCHOR_STATUS |-> IF tx = Null \/ tx.status = "" THEN "submitted"
                            ELSE tx.status]
    ELSE [DID_ANCHORING_ATTEMPTED |-> "true",
          DID_RESOLVABLE |-> IF res # Null /\ res.didDocument THEN "true"
                             ELSE "pending"]

\* updateEnvFile: a failed read or write is recorded, not raised
UpdateEnvFile(ok) ==
    /\ pc = "envUpdate"
    /\ trace' = trace \cup {"updateEnvFile"}
    /\ IF ok
       THEN /\ envFile' = envUpdates(script, bitcoinTransaction, resolvedDID)
            /\ UNCHANGED errors
       ELSE /\ errors' = errors \cup {"envUpdate"}
            /\ UNCHANGED envFile
    /\ pc' = "summary"
    /\ UNCHANGED <<creatorVars, script, config, investorId, store, now, saved, didData,
                   createRequest, anchorResponse, bitcoinTransaction,
                   resolvedDID, tiers, inflight, tierFailed, confirmed,
                   attempts, txStatusResponse, queries, sawFailed, sawRaise,
                   waitResult, summary>>

\* const summary = this.generateSummary(); return summary
RunReturns ==
    /\ pc = "summary"
    /\ summary' = generateSummary(script, errors, anchorResponse,
                                  bitcoinTransaction)
    /\ pc' = "done"
    /\ UNCHANGED <<creatorVars, script, config, investorId, store, now, saved, didData,
                   createRequest, anchorResponse, bitcoinTransaction,
                   resolvedDID, errors, tiers, inflight, tierFailed, confirmed,
                   attempts, txStatusResponse, queries, sawFailed, sawRaise,
                   waitResult, trace, envFile>>

Next ==
    \/ ValidateRequirements
    \/ \E ok \in BOOLEAN : InitializeFireblocks(ok)
    \/ LoadDIDData
    \/ SubmitStart
    \/ \E ack \in PrimaryAcks : AnchorReturns(ack)
    \/ AnchorRaises
    \/ \E outcome \in {"ok", "notok", "raise"} : FetchSettles(outcome)
    \/ \E ack \in DirectAcks : JsonReturns(ack)
    \/ JsonRaises
    \/ CreateBitcoinTransaction
    \/ \E tx \in CreatedTransactions : CreateTransactionReturns(tx)
    \/ CreateTransactionRaises
    \/ WaitForConfirmation
    \/ Poll
    \/ \E data \in StatusResponses : QueryReturns(data)
    \/ QueryRaises
    \/ TimerFires
    \/ TestDIDResolution
    \/ \E outcome \in {"document", "nodocument", "raise"} : ResolveSettles(outcome)
    \/ \E ok \in BOOLEAN : SaveResults(ok)
    \/ \E ok \in BOOLEAN : UpdateEnvFile(ok)
    \/ RunReturns

Spec == Init /\ [][Next]_vars

\* a status query that has been issued settles (with an answer or an error)
QuerySettles ==
    \/ \E data \in StatusResponses : QueryReturns(data)
    \/ QueryRaises

\* the run of an anchoring script in which the event loop resumes the poller:
\* every status query settles, every timer fires, and the loop head runs
SpecPoller ==
    /\ Init
    /\ [][Next]_vars
    /\ WF_vars(Poll)
    /\ WF_vars(QuerySettles)
    /\ WF_vars(TimerFires)

(***************************************************************************)
(* The checkpoint store across processes: creation runs that reach         *)
(* saveDIDData and anchoring runs that reach loadDIDData, one after the    *)
(* other, on the same ./data directory.  investorId, errors, didData and   *)
(* createRequest are those of the process that made the latest call.       *)
(***************************************************************************)
InitStore ==
    /\ script = "store"
    /\ pc = "idle"
    /\ config = ConfigNames
    /\ investorId \in InvestorIds
    /\ store = {}
    /\ now = MaxTime - 3
    /\ saved = {}
    /\ addresses = {}
    /\ FreshRun

\* time passes between two calls
Tick ==
    /\ now < MaxTime
    /\ now' = now + 1
    /\ UNCHANGED <<creatorVars, script, pc, config, investorId, store, saved>>
    /\ UNCHANGED runVars

\* DIDCreator.saveDIDData of a process configured with investor id inv: the
\* three writes, of which write number failAt raises (0: none does); the catch
\* records saveData and rethrows
SaveDIDData(inv, cr, failAt) ==
    /\ Cardinality(saved) < MaxSaves
    /\ investorId' = inv
    /\ store' = saveDIDDataWrites(store, inv, now, cr, failAt)
    /\ saved' = saved \cup {[investorId |-> inv, t |-> now, ok |-> (failAt = 0),
                             bundle |-> DidBundle(inv, now, cr)]}
    /\ errors' = IF failAt = 0 THEN {} ELSE {"saveData"}
    /\ pc' = IF failAt = 0 THEN "saved" ELSE "saveFailed"
    /\ didData' = Null
    /\ createRequest' = Null
    /\ UNCHANGED <<creatorVars, script, config, now, anchorResponse, bitcoinTransaction,
                   resolvedDID, tiers, inflight, tierFailed, confirmed,
                   attempts, txStatusResponse, queries, sawFailed, sawRaise,
                   waitResult, trace, envFile, summary>>

\* loadDIDData of an anchoring process configured with investor id inv
\* (the method is the same in both anchorers)
AnchorerLoads(inv) ==
    /\ investorId' = inv
    /\ didData' = loadedBundle(store, inv)
    /\ createRequest' = IF loadFailure(store, inv) = ""
                        THEN loadedBundle(store, inv).createRequest
                        ELSE Null
    /\ errors' = IF loadFailure(store, inv) = "" THEN {}
                 ELSE {loadFailure(store, inv)}
    /\ pc' = IF loadFailure(store, inv) = "" THEN "loaded" ELSE "loadFailed"
    /\ UNCHANGED <<creatorVars, script, config, store, now, saved, anchorResponse,
                   bitcoinTransaction, resolvedDID, tiers, inflight, tierFailed,
                   confirmed, attempts, txStatusResponse, queries, sawFailed,
                   sawRaise, waitResult, trace, envFile, summary>>

NextStore ==
    \/ Tick
    \/ \E inv \in CreatorInvestorIds, failAt \in 0..3 :
           SaveDIDData(inv, GoodRequest, failAt)
    \/ \E inv \in AnchorerInvestorIds : AnchorerLoads(inv)

SpecStore == InitStore /\ [][NextStore]_vars

(***************************************************************************)
(* DIDCreator (2-create-did.js): the data of a creation run.               *)
(***************************************************************************)
MaxUriLen == 3

\* this.btcAddress, this.ethAddress, this.solAddress
AddressFields == {"btcAddress", "ethAddress", "solAddress"}

\* const requiredAddresses: the network name of each field, as words
networkName(field) ==
    CASE field = "btcAddress" -> <<"Bitcoin", "Testnet">>
      [] field = "ethAddress" -> <<"Ethereum", "Sepolia">>
      [] field = "solAddress" -> <<"Solana", "Devnet">>

\* the message of the Error validateWalletAddresses throws, as words
MissingWalletsMessage ==
    <<"Missing", "required", "wallet", "addresses.", "Run", "wallet",
      "extraction", "first.">>

\* error.message of an error raised by a library or by the file system
OtherMessage == <<"error">>

\* faulty variant: a missing address is only logged
validateWalletAddressesLogsOnly(addrs) == <<>>

\* validateWalletAddresses: the message of the error it throws, no words when
\* it returns true
validateWalletAddresses(addrs) ==
    IF \A field \in AddressFields : field \in addrs THEN <<>>
    ELSE MissingWalletsMessage

\* the three key pairs of generateDIDKeys
KeyRoles == {"authentication", "update", "recovery"}

\* what generateKeyPair() resolves to: FALSE is a field that is missing
KeyPair(pub, priv) == [publicJwk |-> pub, privateJwk |-> priv]

\* the results of the three generateKeyPair calls of one generateDIDKeys: all
\* well formed, or one of them with a field missing
KeyPairResults ==
    {pairs \in [KeyRoles -> {KeyPair(TRUE, TRUE), KeyPair(FALSE, TRUE),
                             KeyPair(TRUE, FALSE)}] :
        Cardinality({r \in KeyRoles : pairs[r] # KeyPair(TRUE, TRUE)}) <= 1}

\* this.didKeys = {authentication: {...}, update: {...}, recovery: {...}}
didKeysOf(pairs) ==
    {[role |-> r, publicKeyJwk |-> pairs[r].publicJwk,
      privateKeyJwk |-> pairs[r].privateJwk] : r \in KeyRoles}

\* the log lines after the assignment read authnKeys.publicJwk.kty and .crv
keyLogRaises(pairs) == ~pairs["authentication"].publicJwk

\* this.didKeys after a generateDIDKeys in which every key pair is well formed
GeneratedKeys == didKeysOf([r \in KeyRoles |-> KeyPair(TRUE, TRUE)])

\* characters of a DID URI: a letter, ':' and '?'
UriChars == {100, 58, 63}

\* what await this.didInstance.getURI() may resolve to
LongForms == UNION {[1..n -> UriChars] : n \in 0..MaxUriLen}

\* String.prototype.split with a one-character separator
RECURSIVE split(_, _)
split(s, sep) ==
    IF \A i \in 1..Len(s) : s[i] # sep THEN <<s>>
    ELSE LET i == CHOOSE k \in 1..Len(s) :
                      s[k] = sep /\ \A j \in 1..(k - 1) : s[j] # sep
         IN  <<SubSeq(s, 1, i - 1)>> \o split(SubSeq(s, i + 1, Len(s)), sep)

\* faulty variant: the piece after the last separator
shortFormOfLastPiece(long) == split(long, 63)[Len(split(long, 63))]

\* faulty variant: everything but the piece after the last separator
shortFormOfDropLast(long) ==
    IF \A i \in 1..Len(long) : long[i] # 63 THEN <<>>
    ELSE SubSeq(long, 1, (CHOOSE k \in 1..Len(long) :
                              long[k] = 63 /\ \A j \in (k + 1)..Len(long) :
                                                  long[j] # 63) - 1)

\* this.longFormDid.split('?')[0]
shortFormOf(long) == split(long, 63)[1]

\* what await this.didInstance.generateRequest(0) may resolve to; FALSE is a
\* sub-field that is absent or null
GeneratedRequests ==
    {[type |-> "create", suffixData |-> sd, delta |-> d] :
        sd \in BOOLEAN, d \in BOOLEAN}

\* errorCount === 0 && this.longFormDid: false, or the value of longFormDid
creatorSuccess(errs, long) ==
    IF errs # {} THEN "false"
    ELSE IF long = NullString THEN "null"
    ELSE IF long = <<>> THEN "emptyString" ELSE "string"

\* DIDCreator.generateSummary (mainError is absent: no words)
creatorSummary(errs, long, short) ==
    [success |-> creatorSuccess(errs, long),
     did |-> long,
     shortForm |-> short,
     errorCount |-> Cardinality(errs),
     errors |-> errs,
     mainError |-> <<>>]

\* catch (error) of DIDCreator.run
creatorFailedSummary(errs, long, short, message) ==
    [creatorSummary(errs, long, short) EXCEPT !.success = "false",
                                              !.mainError = message]

\* a method of DIDCreator.run raises after recording `keys`
CreatorAbort(keys, message) ==
    /\ errors' = errors \cup keys
    /\ summary' = creatorFailedSummary(errors \cup keys, longFormDid,
                                       shortFormDid, message)
    /\ pc' = "done"

(***************************************************************************)
(* One process running 2-create-did.js: new DIDCreator() and run().        *)
(***************************************************************************)
\* what a creation run never touches
creatorFrame == <<script, config, investorId, now, saved, addresses, didData,
                  anchorResponse, bitcoinTransaction, resolvedDID, tiers,
                  inflight, tierFailed, confirmed, attempts, txStatusResponse,
                  queries, sawFailed, sawRaise, waitResult>>

InitCreate ==
    /\ script = "create"
    /\ pc = "validateWalletAddresses"
    /\ config = {}
    /\ investorId \in InvestorIds
    /\ store \in {{}, saveDIDDataWrites({}, <<97>>, 0, GoodRequest, 0)}
    /\ now = 1
    /\ saved = {}
    /\ addresses \in SUBSET AddressFields
    /\ FreshRun

\* this.validateWalletAddresses(): raises without recording an error
ValidateWalletAddresses ==
    /\ pc = "validateWalletAddresses"
    /\ trace' = trace \cup {"validateWalletAddresses"}
    /\ IF validateWalletAddresses(addresses) = <<>>
       THEN pc' = "generateDIDKeys" /\ UNCHANGED <<errors, summary>>
       ELSE CreatorAbort({}, validateWalletAddresses(addresses))
    /\ UNCHANGED <<store, createRequest, envFile, didKeys, didInstance,
                   longFormDid, shortFormDid>>
    /\ UNCHANGED creatorFrame

\* await this.generateDIDKeys(): the three generateKeyPair calls resolve with
\* pairs; this.didKeys is assigned without a check, then the log lines run
GenerateDIDKeys(pairs) ==
    /\ pc = "generateDIDKeys"
    /\ trace' = trace \cup {"generateDIDKeys"}
    /\ didKeys' = didKeysOf(pairs)
    /\ IF keyLogRaises(pairs)
       THEN CreatorAbort({"keyGeneration"}, OtherMessage)
       ELSE /\ pc' = "createDIDInstance"
            /\ UNCHANGED <<errors, summary>>
    /\ UNCHANGED <<store, createRequest, envFile, didInstance, longFormDid,
                   shortFormDid>>
    /\ UNCHANGED creatorFrame

\* await this.generateDIDKeys(): a generateKeyPair call rejects
GenerateKeyPairRaises ==
    /\ pc = "generateDIDKeys"
    /\ trace' = trace \cup {"generateDIDKeys"}
    /\ CreatorAbort({"keyGeneration"}, OtherMessage)
    /\ UNCHANGED <<store, createRequest, envFile, didKeys, didInstance,
                   longFormDid, shortFormDid>>
    /\ UNCHANGED creatorFrame

\* await this.createDIDInstance(): new DID({content: ...})
CreateDIDInstance(ok) ==
    /\ pc = "createDIDInstance"
    /\ trace' = trace \cup {"createDIDInstance"}
    /\ IF ok
       THEN /\ didInstance' = [investorId |-> investorId, wallets |-> addresses,
                               publicKeys |-> {"authentication"}]
            /\ pc' = "generateLongFormDID"
            /\ UNCHANGED <<errors, summary>>
       ELSE /\ didInstance' = didInstance
            /\ CreatorAbort({"didCreation"}, OtherMessage)
    /\ UNCHANGED <<store, createRequest, envFile, didKeys, longFormDid,
                   shortFormDid>>
    /\ UNCHANGED creatorFrame

\* await this.generateLongFormDID(): getURI() resolves with uri
GenerateLongFormDID(uri) ==
    /\ pc = "generateLongFormDID"
    /\ trace' = trace \cup {"generateLongFormDID"}
    /\ longFormDid' = uri
    /\ shortFormDid' = shortFormOf(uri)
    /\ pc' = "saveDIDData"
    /\ UNCHANGED <<store, createRequest, envFile, errors, summary, didKeys,
                   didInstance>>
    /\ UNCHANGED creatorFrame

\* await this.generateLongFormDID(): getURI() rejects
GetURIRaises ==
    /\ pc = "generateLongFormDID"
    /\ trace' = trace \cup {"generateLongFormDID"}
    /\ CreatorAbort({"longFormDid"}, OtherMessage)
    /\ UNCHANGED <<store, createRequest, envFile, didKeys, didInstance,
                   longFormDid, shortFormDid>>
    /\ UNCHANGED creatorFrame

\* saveDIDData up to `await this.getCreateRequest()`, which awaits
\* generateRequest(0)
SaveDIDDataStart ==
    /\ pc = "saveDIDData"
    /\ trace' = trace \cup {"saveDIDData", "getCreateRequest"}
    /\ pc' = "await_generateRequest"
    /\ UNCHANGED <<store, createRequest, envFile, errors, summary, didKeys,
                   didInstance, longFormDid, shortFormDid>>
    /\ UNCHANGED creatorFrame

\* generateRequest(0) resolves: getCreateRequest returns the request as it is,
\* and saveDIDData awaits getAllOperations()
GenerateRequestReturns(cr) ==
    /\ pc = "await_generateRequest"
    /\ createRequest' = cr
    /\ pc' = "await_getAllOperations"
    /\ UNCHANGED <<store, trace, envFile, errors, summary, didKeys,
                   didInstance, longFormDid, shortFormDid>>
    /\ UNCHANGED creatorFrame

\* generateRequest(0) rejects: getCreateRequest records createRequest and
\* rethrows, saveDIDData records saveData and rethrows
GenerateRequestRaises ==
    /\ pc = "await_generateRequest"
    /\ CreatorAbort({"createRequest", "saveData"}, OtherMessage)
    /\ UNCHANGED <<store, createRequest, trace, envFile, didKeys, didInstance,
                   longFormDid, shortFormDid>>
    /\ UNCHANGED creatorFrame

\* faulty variant: a failed write is recorded and the run goes on to updateEnvFile
WriteDIDDataNonFatal(failAt) ==
    /\ pc = "await_getAllOperations"
    /\ store' = saveDIDDataWrites(store, investorId, now, createRequest, failAt)
    /\ errors' = IF failAt = 0 THEN errors ELSE errors \cup {"saveData"}
    /\ pc' = "updateEnvFile"
    /\ UNCHANGED <<createRequest, trace, envFile, summary, didKeys, didInstance,
                   longFormDid, shortFormDid>>
    /\ UNCHANGED creatorFrame

\* getAllOperations() resolves and the three files are written; write number
\* failAt raises (0: none; 1 also stands for getAllOperations rejecting)
WriteDIDData(failAt) ==
    /\ pc = "await_getAllOperations"
    /\ store' = saveDIDDataWrites(store, investorId, now, createRequest, failAt)
    /\ IF failAt = 0
       THEN pc' = "updateEnvFile" /\ UNCHANGED <<errors, summary>>
       ELSE CreatorAbort({"saveData"}, OtherMessage)
    /\ UNCHANGED <<createRequest, trace, envFile, didKeys, didInstance,
                   longFormDid, shortFormDid>>
    /\ UNCHANGED creatorFrame

\* const updates = {...} of DIDCreator.updateEnvFile
creatorEnvUpdates(long, short) ==
    [DID_LONG_FORM |-> long,
     DID_SHORT_FORM |-> short,
     DID_IDENTIFIER |-> split(short, 58)[Len(split(short, 58))],
     DID_AUTH_KEY_ID |-> "auth-key-1"]

\* await this.updateEnvFile(): a failed read or write is recorded, not raised
UpdateCreatorEnvFile(ok) ==
    /\ pc = "updateEnvFile"
    /\ trace' = trace \cup {"updateEnvFile"}
    /\ IF ok
       THEN /\ envFile' = creatorEnvUpdates(longFormDid, shortFormDid)
            /\ UNCHANGED errors
       ELSE /\ errors' = errors \cup {"envUpdate"}
            /\ UNCHANGED envFile
    /\ pc' = "generateSummary"
    /\ UNCHANGED <<store, createRequest, summary, didKeys, didInstance,
                   longFormDid, shortFormDid>>
    /\ UNCHANGED creatorFrame

\* const summary = this.generateSummary(); return summary
CreatorRunReturns ==
    /\ pc = "generateSummary"
    /\ summary' = creatorSummary(errors, longFormDid, shortFormDid)
    /\ pc' = "done"
    /\ UNCHANGED <<store, createRequest, trace, envFile, errors, didKeys,
                   didInstance, longFormDid, shortFormDid>>
    /\ UNCHANGED creatorFrame

NextCreate ==
    \/ ValidateWalletAddresses
    \/ \E pairs \in KeyPairResults : GenerateDIDKeys(pairs)
    \/ GenerateKeyPairRaises
    \/ \E ok \in BOOLEAN : CreateDIDInstance(ok)
    \/ \E uri \in LongForms : GenerateLongFormDID(uri)
    \/ GetURIRaises
    \/ SaveDIDDataStart
    \/ \E cr \in GeneratedRequests : GenerateRequestReturns(cr)
    \/ GenerateRequestRaises
    \/ \E failAt \in 0..3 : WriteDIDData(failAt)
    \/ \E ok \in BOOLEAN : UpdateCreatorEnvFile(ok)
    \/ CreatorRunReturns

SpecCreate == InitCreate /\ [][NextCreate]_vars

(***************************************************************************)
(* Properties.                                                             *)
(***************************************************************************)
Range(q) == {q[i] : i \in 1..Len(q)}

TierOrder == <<"primary", "direct", "degraded">>

SubmitPcs == {"await_anchor", "await_fetch", "await_json"}

PollPcs == {"poll", "await_query", "sleep"}

\* every network tier of the running script has raised
AllNetworkTiersFailed ==
    IF script = "bitcoin" THEN {"primary", "direct"} \subseteq tierFailed
    ELSE "primary" \in tierFailed

\* C1: in submitToIONNode and submitToION, whenever every network tier has
\* raised, the call has not raised (no ionSubmission error, the run is not
\* aborted by it) and its result is a non-null record whose status is set.
C1_DegradedTierReturns ==
    AllNetworkTiersFailed =>
        /\ "ionSubmission" \notin errors
        /\ anchorResponse # Null
        /\ anchorResponse.status # ""
        /\ anchorResponse.tier = "degraded"
        /\ pc \notin SubmitPcs

C1_Witness ==
    /\ script = "bitcoin"
    /\ pc = "createTx"
    /\ tierFailed = {"primary", "direct"}
    /\ anchorResponse # Null
    /\ anchorResponse.status = "pending"

\* C2: submitToIONNode tries the tiers in the order primary, direct, degraded,
\* each at most once and never two at a time; the direct POST is issued iff the
\* primary call has returned with an error, the degraded record is synthesized
\* iff the direct tier has then failed, and the result is that of the first
\* tier that succeeded.
C2_TiersStrictlySequential ==
    script = "bitcoin" =>
        /\ Len(tiers) <= 3
        /\ tiers = SubSeq(TierOrder, 1, Len(tiers))
        /\ Cardinality(inflight \cap {"primary", "direct"}) <= 1
        /\ inflight \cap {"primary", "direct"} \subseteq
               (IF tiers = <<>> THEN {} ELSE {tiers[Len(tiers)]})
        /\ ("direct" \in Range(tiers) <=> "primary" \in tierFailed)
        /\ ("degraded" \in Range(tiers) <=> "direct" \in tierFailed)
        /\ ("primary" \in tierFailed => "primary" \notin inflight)
        /\ ("direct" \in tierFailed => "direct" \notin inflight)
        /\ (tiers # <<>> /\ pc \notin SubmitPcs /\ "ionSubmission" \notin errors =>
               \/ /\ tierFailed = {}
                  /\ anchorResponse \in PrimaryAcks
               \/ /\ tierFailed = {"primary"}
                  /\ anchorResponse \in DirectAcks
               \/ /\ tierFailed = {"primary", "direct"}
                  /\ anchorResponse # Null
                  /\ anchorResponse.tier = "degraded")

C2_Witness ==
    /\ script = "bitcoin"
    /\ tiers = TierOrder
    /\ pc = "createTx"
    /\ anchorResponse # Null
    /\ anchorResponse.tier = "degraded"

\* C3: whatever tiers fail, the submission stage does not abort the anchoring
\* run: it records no ionSubmission error, and once submitToIONNode has been
\* entered and is no longer waiting for a tier, createBitcoinTransaction is the
\* next stage or has been entered.
C3_SubmissionNeverAborts ==
    script = "bitcoin" =>
        /\ "ionSubmission" \notin errors
        /\ ("submit" \in trace /\ pc \notin SubmitPcs =>
               pc = "createTx" \/ "createBitcoinTransaction" \in trace)

C3_Witness ==
    /\ script = "bitcoin"
    /\ tierFailed = {"primary", "direct"}
    /\ "createBitcoinTransaction" \in trace
    /\ pc = "await_createTx"

\* C4: when a status query is the first to report COMPLETED, after k queries
\* in all (k within the budget), waitForConfirmation issues no further query,
\* the k queries are the k attempts counted, and it returns true with the
\* tracked transaction in status COMPLETED.
C4_CompletedEndsPoll ==
    /\ [](confirmed =>
            /\ queries = attempts
            /\ queries <= maxAttempts
            /\ pc \notin PollPcs
            /\ inflight = {}
            /\ waitResult = "true"
            /\ bitcoinTransaction.status = "COMPLETED")
    /\ [][confirmed => queries' = queries]_vars

C4_Witness ==
    /\ confirmed
    /\ queries = 3
    /\ ~sawFailed
    /\ ~sawRaise
    /\ waitResult = "true"
    /\ pc = "save"

\* C5: once a status query has reported FAILED or REJECTED, no further status
\* query is issued for the transaction and the poll does not go on.
C5_FailedEndsPoll ==
    [][sawFailed => queries' = queries /\ pc' # "await_query"]_vars

\* every status query of the budget was made and reported a non-terminal status
TimedOutClean ==
    /\ script = "bitcoin"
    /\ queries = maxAttempts
    /\ pc \notin PollPcs
    /\ ~confirmed
    /\ ~sawFailed
    /\ ~sawRaise

\* C6 as stated: if every status query within the budget reports a non-terminal
\* status, waitForConfirmation returns not-confirmed without raising and
\* without adding an error, and the run still executes saveAnchoringResults and
\* updateEnvFile and returns a summary with errorCount 0 and a truthy success.
C6_TimeoutSummaryAlwaysClean ==
    TimedOutClean /\ pc = "done" =>
        /\ waitResult = "false"
        /\ "confirmation" \notin errors
        /\ {"saveResults", "updateEnvFile"} \subseteq trace
        /\ summary.errorCount = 0
        /\ Truthy(summary.success)

\* C6 as amended: ... returns a summary without mainError whose errors are at
\* most those of the two later stages' own failed writes (saveResults,
\* envUpdate); when both writes succeed errorCount is 0 and success is truthy.
C6_TimeoutIsNotAnError ==
    TimedOutClean =>
        /\ waitResult = "false"
        /\ "confirmation" \notin errors
        /\ (pc = "save" => errors = {})
        /\ (pc = "done" =>
               /\ {"saveResults", "updateEnvFile"} \subseteq trace
               /\ ~summary.mainError
               /\ summary.errors = errors
               /\ summary.errorCount = Cardinality(errors)
               /\ errors \subseteq {"saveResults", "envUpdate"}
               /\ (errors = {} => summary.errorCount = 0 /\ Truthy(summary.success))
               /\ ("saveResults" \in errors <=> \A f \in store :
                       ~(f.content.kind = "anchorResults"
                            /\ f.content.created = now))
               /\ ("envUpdate" \in errors <=> envFile = Null))

C6_Witness ==
    /\ TimedOutClean
    /\ pc = "done"
    /\ summary.errorCount = 0
    /\ Truthy(summary.success)
    /\ envFile # Null

\* C7: a status query that raises is a no-op tick: it leaves the tracked
\* transaction, the confirmed flag and the error collection unchanged, does not
\* end the poll by itself (the loop goes on to its wait or to its loop test)
\* and the attempt it consumed stays consumed: the attempt counter never
\* decreases while polling and counts every query issued.
C7_RaisingQueryIsNoOp ==
    /\ [][(pc = "await_query" /\ txStatusResponse' = Raised) =>
            (/\ bitcoinTransaction' = bitcoinTransaction
             /\ confirmed' = confirmed
             /\ errors' = errors
             /\ attempts' = attempts
             /\ waitResult' = waitResult
             /\ pc' = (IF attempts < maxAttempts THEN "sleep" ELSE "poll"))]_vars
    /\ [][(pc \in PollPcs /\ pc' \in PollPcs) => (attempts' >= attempts)]_vars
    /\ [](pc \in PollPcs => attempts = queries)

C7_Witness ==
    /\ pc = "sleep"
    /\ txStatusResponse = Raised
    /\ attempts = 2
    /\ bitcoinTransaction.txHash = "h1"
    /\ errors = {}

\* C8: once the tracked transaction record holds a non-empty txHash it never
\* afterwards holds an empty or absent one.
C8_TxHashNeverErased ==
    [][bitcoinTransaction # Null /\ bitcoinTransaction.txHash # "" =>
           bitcoinTransaction'.txHash # ""]_vars

\* C9 as stated: once the tracked txHash is non-empty, no later status
\* response changes it to a different non-empty value.
C9_TxHashNeverChanges ==
    [][bitcoinTransaction # Null /\ bitcoinTransaction.txHash # ""
           /\ bitcoinTransaction'.txHash # "" =>
           bitcoinTransaction'.txHash = bitcoinTransaction.txHash]_vars

\* C9 as amended: the tracked txHash follows the service: every status
\* response that carries a non-empty txHash makes it the tracked one (also in
\* place of a different non-empty value), and a non-empty tracked txHash
\* changes to a different non-empty value only in that way.
C9_TxHashFollowsResponses ==
    /\ [][pc = "await_query" /\ txStatusResponse' \in StatusResponses
              /\ txStatusResponse'.txHash # "" =>
              bitcoinTransaction'.txHash = txStatusResponse'.txHash]_vars
    /\ [][bitcoinTransaction # Null /\ bitcoinTransaction.txHash # ""
              /\ bitcoinTransaction'.txHash # ""
              /\ bitcoinTransaction'.txHash # bitcoinTransaction.txHash =>
              /\ pc = "await_query"
              /\ txStatusResponse' \in StatusResponses
              /\ txStatusResponse'.txHash = bitcoinTransaction'.txHash]_vars

C9_Witness ==
    /\ pc = "sleep"
    /\ attempts = 1
    /\ bitcoinTransaction = Tx("tx1", "PENDING", "h2")
    /\ txStatusResponse = Tx("tx1", "PENDING", "h2")

\* the successful saveDIDData calls for investor id inv
SavesOf(inv) == {s \in saved : s.ok /\ s.investorId = inv}

\* C10: after two successful saveDIDData runs for the same investor id at
\* different timestamps, loadDIDData for that investor returns the bundle of
\* the save with the later timestamp.
C10_LoadReturnsLatestSave ==
    pc \in {"loaded", "loadFailed"} =>
        \A s1, s2 \in SavesOf(investorId) :
            (s1.t < s2.t /\ \A s \in SavesOf(investorId) : s.t <= s2.t) =>
                pc = "loaded" /\ didData = s2.bundle

\* C11: runs for different investors never collide in the checkpoint store:
\* for any two distinct investor ids (also when one is a string prefix of
\* the other), loadDIDData for one never selects an artifact that was saved
\* for the other.
C11_LoadNeverSelectsOtherInvestor ==
    (pc \in {"loaded", "loadFailed"} /\ didData # Null) =>
        didData.investorId = investorId

\* C12: the checkpoint store is append-only: no save by any run overwrites or
\* removes an artifact written by an earlier save (every file of the store,
\* name and content, is still there after every step).
C12_StoreIsAppendOnly ==
    [][\A f \in store : f \in store']_vars

\* the results artifacts in ./data
ResultsFiles == {f \in store : f.content.kind \in {"anchorResults", "simpleAnchor"}}

\* C13: a checkpoint is written after every stage: when a later stage fails
\* after a successful submission, the outcome of the submission is in the
\* store when the run ends.
C13_CompletedStagesArePersisted ==
    (pc = "done" /\ anchorResponse # Null) =>
        \E f \in ResultsFiles :
            /\ f.content.investorId = investorId
            /\ f.content.created = now
            /\ f.content.ionSubmission = anchorResponse

\* an earlier run of 3-anchor-bitcoin.js for this investor left a results
\* artifact with an accepted submission and a settlement transaction
PriorRunCompleted ==
    \E f \in ResultsFiles :
        /\ f.content.kind = "anchorResults"
        /\ f.content.investorId = investorId
        /\ f.content.created < now
        /\ f.content.ionSubmission # Null
        /\ f.content.bitcoinTransaction # Null

\* C14: an anchoring run started for an investor whose earlier run already
\* completed the submission and created a settlement transaction does not
\* submit the create operation again and does not create a second
\* settlement transaction.
C14_ResumeDoesNotRepeatStages ==
    (script = "bitcoin" /\ PriorRunCompleted) =>
        (tiers = <<>> /\ "createTransaction" \notin trace)

AllAddresses == \A field \in AddressFields : field \in addresses

\* C15: for every non-empty set of missing wallet addresses,
\* validateWalletAddresses fails with an error whose message names exactly the
\* missing networks.
C15_ErrorNamesMissingNetworks ==
    (script = "create" /\ pc = "done" /\ ~AllAddresses) =>
        \A field \in AddressFields :
            includes(summary.mainError, networkName(field))
                <=> field \notin addresses

\* C16: when any wallet address is missing the creation run is blocked before
\* any other stage: no key pair is generated, no DID instance is built, no
\* artifact file is written and the environment file is left unchanged.
C16_MissingAddressBlocksRun ==
    /\ []((script = "create" /\ ~AllAddresses) =>
            /\ pc \in {"validateWalletAddresses", "done"}
            /\ didKeys = {}
            /\ didInstance = Null
            /\ envFile = Null
            /\ trace \subseteq {"validateWalletAddresses"}
            /\ (pc = "done" => summary.mainError = MissingWalletsMessage))
    /\ [][(script = "create" /\ ~AllAddresses) => (store' = store)]_vars

C16_Witness ==
    /\ script = "create"
    /\ pc = "done"
    /\ addresses = {"btcAddress", "solAddress"}
    /\ summary.mainError = MissingWalletsMessage
    /\ store # {}

\* generateLongFormDID has returned in this creation run
Derived == script = "create" /\ longFormDid # NullString

\* C17: for every long-form string the identifier-document capability returns,
\* the short form generateLongFormDID computes is the part of the long form
\* before its first '?' (it holds no '?' and ends where the first '?' or the
\* string ends), and the long form starts with the short form.
C17_ShortFormIsPartBeforeFirstMark ==
    Derived =>
        /\ startsWith(longFormDid, shortFormDid)
        /\ \A i \in 1..Len(shortFormDid) : shortFormDid[i] # 63
        /\ \/ Len(shortFormDid) = Len(longFormDid)
           \/ longFormDid[Len(shortFormDid) + 1] = 63

C17_Witness ==
    /\ Derived
    /\ longFormDid = <<100, 63, 63>>
    /\ shortFormDid = <<100>>

\* the number of '?' characters of s
Marks(s) == Cardinality({i \in 1..Len(s) : s[i] = 63})

\* C18: for every run with a valid investor id and three wallet addresses
\* that builds an identifier, shortForm is non-empty, shortForm is a strict
\* (shorter) prefix of longForm, and longForm contains exactly one '?', which
\* separates them.
C18_IdentityWellFormed ==
    (Derived /\ AllAddresses) =>
        /\ shortFormDid # <<>>
        /\ startsWith(longFormDid, shortFormDid)
        /\ Len(shortFormDid) < Len(longFormDid)
        /\ Marks(longFormDid) = 1

\* C19: short-form derivation is idempotent: applied to an already derived
\* short form it returns that same short form, and deriving again from the
\* same long form gives the short form the run holds.
C19_DerivationIdempotent ==
    Derived =>
        /\ shortFormOf(shortFormDid) = shortFormDid
        /\ shortFormOf(longFormDid) = shortFormDid

C19_Witness ==
    /\ Derived
    /\ pc = "done"
    /\ longFormDid = <<63, 63, 100>>
    /\ shortFormDid = <<>>

\* C20: a create operation that lacks suffixData or delta is never accepted:
\* getCreateRequest does not return one, and every create operation that
\* saveDIDData persists has both sub-fields present and non-null.
C20_MalformedRequestNeverAccepted ==
    /\ (script = "create" /\ pc = "await_getAllOperations") =>
           (createRequest.suffixData /\ createRequest.delta)
    /\ \A f \in store :
           (f.content.kind = "didData" /\ f.content.createRequest # Null) =>
               (f.content.createRequest.suffixData
                   /\ f.content.createRequest.delta)

\* C21: generateDIDKeys fails whenever the key-pair capability raises or
\* returns, for any of the three roles, a key pair with a missing public or
\* private field; no such malformed key pair is ever stored in didKeys.
C21_MalformedKeysNeverStored ==
    script = "create" =>
        \A k \in didKeys : k.publicKeyJwk /\ k.privateKeyJwk

\* the artifact the run is required to produce (named for Bitcoin anchoring:
\* anchorResponse or bitcoinTransaction)
RequiredArtifactExists ==
    script = "bitcoin" => (anchorResponse # Null \/ bitcoinTransaction # Null)

\* C22: the process exits with status 0 if and only if the run's error tally
\* is zero and the run's required artifact exists; a non-zero tally or a
\* missing required artifact always gives exit status 1.
C22_ExitStatusFollowsTally ==
    (script \in {"bitcoin", "simple"} /\ pc = "done") =>
        (exitStatus(summary) = 0
            <=> (summary.errorCount = 0 /\ RequiredArtifactExists))

\* the configuration values of the Bitcoin anchoring run: investor identifier,
\* wallet address, anchoring-network endpoint, custodial-service credentials,
\* source-account identifier
RequiredConfiguration ==
    {"INVESTOR_ID", "BTC_WALLET_ADDRESS", "ION_NODE_ENDPOINT",
     "FIREBLOCKS_API_KEY", "FIREBLOCKS_SECRET_KEY_PATH", "VAULT_ACCOUNT_ID"}

\* C23: if any required configuration value is absent, the run fails as a
\* precondition failure before any stage runs: before any custodial-service
\* call, anchoring submission or artifact write.
C23_MissingConfigurationBlocksRun ==
    (script = "bitcoin" /\ \E n \in RequiredConfiguration : n \notin config) =>
        /\ pc \in {"validate", "done"}
        /\ trace \subseteq {"validateRequirements"}
        /\ (pc = "done" => summary.mainError)

\* C24: when createTransaction raises, the failure is fatal to the anchoring
\* run only: an error is recorded under the settlement stage, no status query
\* is ever issued, the summary reports failure, and the identifier artifacts
\* and the environment entries of the earlier creation run are left unchanged.
C24_CreateTransactionFailureIsFatal ==
    (script = "bitcoin" /\ "bitcoinTransaction" \in errors) =>
        /\ pc = "done"
        /\ queries = 0
        /\ "getTransaction" \notin trace
        /\ "waitForConfirmation" \notin trace
        /\ summary.success = "false"
        /\ summary.mainError
        /\ "bitcoinTransaction" \in summary.errors
        /\ store \in InitialStores
        /\ envFile = Null

C24_Witness ==
    /\ script = "bitcoin"
    /\ pc = "done"
    /\ errors = {"bitcoinTransaction"}
    /\ anchorResponse = Ack("primary", "accepted")
    /\ bitcoinTransaction = Null
    /\ store = PriorRunStore

\* C25: a failed checkpoint write is non-fatal in every pipeline: when the
\* write in saveDIDData fails the error is recorded, the run is not aborted,
\* the stages after the write still execute, and the results of the stages
\* completed before it are still reported in the summary.
C25_FailedCheckpointWriteIsNonFatal ==
    (script = "create" /\ pc = "done" /\ "saveData" \in errors
        /\ "createRequest" \notin errors) =>
        /\ summary.mainError = <<>>
        /\ "updateEnvFile" \in trace
        /\ summary.did = longFormDid
        /\ "saveData" \in summary.errors

\* C26: every stage failure is recorded in the per-run error collection: for
\* every run that ends because a stage raised (the summary carries mainError),
\* including a failure of the validation stage, the error collection is
\* non-empty and errorCount is greater than zero.
C26_StageFailureIsRecorded ==
    (script \in {"bitcoin", "simple"} /\ pc = "done" /\ summary.mainError) =>
        (errors # {} /\ summary.errorCount > 0)

EndToEndScenario ==
    /\ script = "bitcoin"
    /\ pc = "done"
    /\ AllNetworkTiersFailed
    /\ confirmed
    /\ queries = 2
    /\ ~sawFailed
    /\ ~sawRaise
    /\ errors = {}

\* C28: end-to-end, when the anchoring network is unreachable on every tier,
\* the settlement transaction is created and the second status query reports
\* COMPLETED, the submission result has status simulated, the poller stops
\* after exactly two queries in the confirmed outcome, and the final summary
\* reports success = true and errorCount = 0.
C28_EndToEndScenario ==
    EndToEndScenario =>
        /\ anchorResponse.status = "simulated"
        /\ waitResult = "true"
        /\ bitcoinTransaction.status = "COMPLETED"
        /\ summary.success = "true"
        /\ summary.errorCount = 0

\* the artifacts that are safe to share
ShareableKinds == {"public", "anchorResults", "simpleAnchor"}

C30_DegradedStatusValues ==
    (anchorResponse # Null /\ anchorResponse.tier = "degraded") =>
        /\ anchorResponse.status \in {"simulated", "submitted_longform"}
        /\ anchorResponse.didUri \in {"didData.did.longForm", "env.DID_LONG_FORM"}
        /\ anchorResponse.timestamp = now

\* the submitter has returned to run() without raising
SubmitterReturned ==
    /\ "submit" \in trace
    /\ pc \notin SubmitPcs
    /\ "ionSubmission" \notin errors

\* C31: every result returned by the submitter, whichever tier produced it
\* (primary, direct or degraded) and whatever the network answered, is
\* non-null and has a status field.
C31_ResultAlwaysHasStatus ==
    SubmitterReturned =>
        /\ anchorResponse # Null
        /\ anchorResponse.status # ""

\* C32: for every sequence of status-query outcomes, provided each query and
\* each wait returns, waitForConfirmation terminates after at most
\* floor(maxWaitTime / checkInterval) = 20 status queries; it waits one
\* interval between consecutive queries, has at most one query in flight at a
\* time, and does not wait after the final query or after a COMPLETED answer.
C32_PollerTerminatesWithinBudget ==
    /\ maxAttempts = 20
    /\ [](queries <= maxAttempts /\ queries = attempts)
    /\ (pc \in PollPcs ~> pc \notin PollPcs)
    \* a query is issued by the loop head only, with none in flight
    /\ [][(queries' # queries) =>
              (/\ pc = "poll"
               /\ queries' = queries + 1
               /\ "getTransaction" \notin inflight
               /\ pc' = "await_query")]_vars
    \* the loop head of a later iteration is reached through the timer only
    /\ [][(pc' = "poll" /\ attempts' > 0 /\ attempts' < maxAttempts) =>
              (pc = "sleep")]_vars
    /\ [][(pc = "sleep") => (pc' = "poll" /\ queries' = queries)]_vars
    \* an answer other than COMPLETED before the final query is followed by the wait
    /\ [][(pc = "await_query" /\ attempts < maxAttempts /\ ~confirmed') =>
              (pc' = "sleep")]_vars
    \* no wait after the final query or after COMPLETED
    /\ [][(pc = "await_query" /\ (attempts = maxAttempts \/ confirmed')) =>
              (pc' # "sleep")]_vars
    /\ [](pc = "sleep" => (~confirmed /\ attempts < maxAttempts))

C32_Witness ==
    /\ script = "bitcoin"
    /\ pc = "save"
    /\ queries = maxAttempts
    /\ attempts = maxAttempts
    /\ ~confirmed
    /\ waitResult = "false"
    /\ sawRaise
    /\ sawFailed

\* C33: SimpleIONAnchorer.submitToION follows the same fallback chain as the
\* full anchorer: when the primary anchor call raises, a direct protocol POST
\* of the create operation is attempted before the degraded acknowledgment
\* is synthesized.
C33_SimpleAnchorerTriesDirect ==
    (script = "simple" /\ "primary" \in tierFailed) =>
        /\ "direct" \in Range(tiers)
        /\ "fetch" \in trace
        /\ ("degraded" \in Range(tiers) => "direct" \in tierFailed)

\* the full identifier bundles of investor inv in ./data
BundlesOf(inv) ==
    {f \in store : f.content.kind = "didData" /\ f.content.investorId = inv}

\* the store holds no full identifier bundle for the configured investor: no
\* file of that investor, or the latest one has no create request
NoFullBundle ==
    \/ BundlesOf(investorId) = {}
    \/ \E f \in BundlesOf(investorId) :
           /\ \A g \in BundlesOf(investorId) : g.content.created <= f.content.created
           /\ f.content.createRequest = Null

\* C34: when the store holds no full identifier bundle for the configured
\* investor, loadDIDData records an error under its stage and raises, and
\* the run ends in failure without submitting anything to the anchoring
\* network and without creating a settlement transaction.
C34_MissingBundleEndsRun ==
    (script \in {"bitcoin", "simple"} /\ NoFullBundle) =>
        /\ ("loadDIDData" \in trace =>
               /\ pc = "done"
               /\ "loadDIDData" \in errors
               /\ summary.mainError
               /\ summary.success = "false")
        /\ tiers = <<>>
        /\ "anchor" \notin trace
        /\ "createTransaction" \notin trace

\* an anchorer has called loadDIDData, and every saveDIDData so far was made
\* for investor id inv and succeeded
OnlySuccessfulSavesOf(inv) ==
    /\ pc \in {"loaded", "loadFailed"}
    /\ saved # {}
    /\ \A s \in saved : s.ok /\ s.investorId = inv

\* C35: save and load round-trip for every investor id: after saveDIDData
\* has succeeded for investor id X and no other investor's artifacts are in
\* the store, loadDIDData configured with the same id X succeeds and returns
\* exactly the bundle that was saved, for every non-empty id X (including
\* ids that contain the substrings 'keys' or 'public').
C35_SaveLoadRoundTrip ==
    OnlySuccessfulSavesOf(investorId) =>
        /\ pc = "loaded"
        /\ errors = {}
        /\ \E s \in saved : didData = s.bundle

\* C36: when INVESTOR_ID is not configured, the creation script and both
\* anchoring scripts fall back to the same default investor id, so the
\* bundle saved by a creation run is the one the following anchoring run's
\* loadDIDData looks for and finds.
C36_DefaultInvestorIdsAgree ==
    (investorId = DefaultInvestorId
        /\ OnlySuccessfulSavesOf(CreatorDefaultInvestorId)) =>
        /\ CreatorDefaultInvestorId = DefaultInvestorId
        /\ pc = "loaded"
        /\ \E s \in saved : didData = s.bundle

\* C37: if any status query of a run reports FAILED or REJECTED for the
\* settlement transaction, the run does not report success: an error is
\* recorded under the confirmation stage and the final summary has success
\* false (failure exit status).
C37_FailedTransactionFailsRun ==
    (script = "bitcoin" /\ sawFailed /\ pc = "done") =>
        /\ "confirmation" \in errors
        /\ summary.success = "false"
        /\ exitStatus(summary) = 1

\* C38: the anchoring run writes DID_ANCHORED=true to the environment file
\* only in runs where the poller observed COMPLETED for the settlement
\* transaction; a run that timed out, or whose submission was only a degraded
\* acknowledgment with an unconfirmed transaction, never marks the identifier
\* as anchored.
C38_AnchoredOnlyWhenCompleted ==
    (script = "bitcoin" /\ envFile # Null /\ envFile.DID_ANCHORED = "true") =>
        /\ confirmed
        /\ waitResult = "true"
        /\ bitcoinTransaction.status = "COMPLETED"

\* the three artifact files of this creation run are in ./data
ArtifactsWritten ==
    /\ \E f \in store : /\ f.name = didDataFileName(investorId, now)
                        /\ f.content = DidBundle(investorId, now, createRequest)
    /\ \E f \in store : /\ f.name = didKeysFileName(investorId, now)
                        /\ f.content = KeysBundle(investorId, now)
    /\ \E f \in store : /\ f.name = didPublicFileName(investorId)
                        /\ f.content = PublicBundle(investorId, now, createRequest)

\* C39: in a creation run, the DID_* entries (DID_LONG_FORM, DID_SHORT_FORM,
\* DID_IDENTIFIER) are written to the environment file only after all three
\* artifact files of that run have been written successfully; if saveDIDData
\* fails, the environment file is left unchanged.
C39_EnvFileAfterArtifacts ==
    script = "create" =>
        /\ (envFile # Null => (ArtifactsWritten /\ "saveData" \notin errors))
        /\ ("saveData" \in errors =>
               (envFile = Null /\ "updateEnvFile" \notin trace))
        /\ ("updateEnvFile" \in trace => ArtifactsWritten)

C39_Witness ==
    /\ script = "create"
    /\ pc = "done"
    /\ envFile # Null
    /\ envFile.DID_LONG_FORM = longFormDid
    /\ ArtifactsWritten
    /\ errors = {}

\* C40: a creation run that ends in failure leaves no full identifier bundle
\* of that run in the store: if saveDIDData fails at any of its three file
\* writes, no file written by that run can later be selected by an
\* anchorer's loadDIDData.
C40_FailedRunLeavesNoBundle ==
    (script = "create" /\ pc = "done" /\ "saveData" \in errors) =>
        \A inv \in AnchorerInvestorIds :
            \A f \in didDataFiles(store, inv) : f.content.created # now

====
